---------------------------- MODULE Spec2Model ----------------------------
(***************************************************************************)
(* twixt: TransitionNode (src/js/TransitionNode.js), Transition            *)
(* (src/js/AnimationTests.js, second half) and the Animation engine they   *)
(* drive.  Animation.js is not part of the sources at hand: the engine     *)
(* operations (AnimationStart, AnimationStep, AnimationStop, LinearBlend)  *)
(* follow section 4.1 of the specification.                                *)
(*                                                                         *)
(* Numbers are exact rationals <<n, d>> (d > 0, lowest terms); time is     *)
(* counted in ticks.                                                       *)
(***************************************************************************)
EXTENDS Integers, Sequences, FiniteSets

\* ------------------------------------------------------------------ bounds

\* Transition durations range over 1..MaxDuration ticks.
MaxDuration == 2
\* A step's dt ranges over 0..MaxDt ticks.
MaxDt == 2
\* Durations of the stand-alone Animation run of the unit test range over
\* TestDuration .. TestDuration + ExtraDurations (ticks of 0.1 time units).
ExtraDurations == 1

\* ------------------------------------------------------------- rationals

RECURSIVE GCD(_, _)
GCD(a, b) == IF b = 0 THEN a ELSE GCD(b, a % b)

Abs(n) == IF n < 0 THEN -n ELSE n

\* n/d in lowest terms with a positive denominator
Rat(n, d) ==
    LET g == GCD(Abs(n), Abs(d))
        s == IF d < 0 THEN -1 ELSE 1
    IN  <<(s * n) \div g, (s * d) \div g>>

RInt(n) == <<n, 1>>
RAdd(p, q) == Rat(p[1] * q[2] + q[1] * p[2], p[2] * q[2])
RSub(p, q) == Rat(p[1] * q[2] - q[1] * p[2], p[2] * q[2])
RMul(p, q) == Rat(p[1] * q[1], p[2] * q[2])
RNeg(p) == <<-p[1], p[2]>>

RECURSIVE RPow(_, _)
RPow(p, k) == IF k = 0 THEN RInt(1) ELSE RMul(p, RPow(p, k - 1))

Min(a, b) == IF a < b THEN a ELSE b

\* ------------------------------------------------------------------ data

\* null (a content argument, fromContent, toContent)
Null == "null"
\* the visual elements (scenery Nodes) used as content
Elements == {"a", "b"}
Contents == Elements \cup {Null}

\* Bounds2 values of the boundsProperty
Bounds(minX, minY, maxX, maxY) ==
    [minX |-> RInt(minX), minY |-> RInt(minY), maxX |-> RInt(maxX), maxY |-> RInt(maxY)]
BoundsValues == {Bounds(0, 0, 4, 2), Bounds(1, 0, 3, 6)}

\* clipArea = null
NoClip == [shape |-> "none"]
\* this.transition = null
NoTransition == [state |-> "null"]

\* a fresh scenery Node: default attribute values
DefaultNode ==
    [visible |-> TRUE, pickable |-> "null", x |-> RInt(0), y |-> RInt(0),
     opacity |-> RInt(1), clipArea |-> NoClip]

VARIABLES
    cachedNodes,     \* this.cachedNodes
    useBoundsClip,   \* this.useBoundsClip
    assertEnabled,   \* whether the build defines the global assert
    boundsValue,     \* this.boundsProperty.value
    linked,          \* whether this.boundsListener is linked to the boundsProperty
    fromContent,     \* this.fromContent
    toContent,       \* this.toContent
    transition,      \* this.transition (the Transition object, or NoTransition)
    children,        \* how often each element occurs in this.children
    clipArea,        \* this.clipArea
    localBounds,     \* this.paddingNode.localBounds
    nodes,           \* the elements' own attributes
    events,          \* what the last call did, in order (observation only)
    animation,       \* the Animation of the unit test
    numberProperty,  \* the NumberProperty the unit test animates
    elapsedTotal,    \* sum of the dt the unit test has stepped (observation only)
    engineCall       \* what the last call of the Animation did (observation only)

nodeVars == <<cachedNodes, useBoundsClip, assertEnabled, boundsValue, linked, fromContent,
              toContent, transition, children, clipArea, localBounds, nodes, events>>
testVars == <<animation, numberProperty, elapsedTotal, engineCall>>
vars == <<nodeVars, testVars>>


\* -------------------------------------------------- Animation (the engine)

\* default blend of a target: linear numeric interpolation
LinearBlend(a, b, ratio) == RAdd(RMul(RSub(RInt(1), ratio), a), RMul(ratio, b))

\* dissolve's blend: Math.pow( ( 1 - ratio ) * a + ratio * b, options.gamma )
GammaBlend(a, b, ratio, gamma) ==
    RPow(RAdd(RMul(RSub(RInt(1), ratio), a), RMul(ratio, b)), gamma)

\* wipe's blend: Shape.bounds( boundsA.blend( boundsB, ratio ) ), edge by edge
ClipBlend(boundsA, boundsB, ratio) ==
    [minX |-> LinearBlend(boundsA.minX, boundsB.minX, ratio),
     minY |-> LinearBlend(boundsA.minY, boundsB.minY, ratio),
     maxX |-> LinearBlend(boundsA.maxX, boundsB.maxX, ratio),
     maxY |-> LinearBlend(boundsA.maxY, boundsB.maxY, ratio)]

\* the value a target writes at the given ratio
BlendOf(target, ratio) ==
    CASE target.blend = "gamma" -> GammaBlend(target.from, target.to, ratio, target.gamma)
      [] target.blend = "clip" -> ClipBlend(target.from, target.to, ratio)
      [] OTHER -> LinearBlend(target.from, target.to, ratio)

\* new Animation( config ): Idle until start()
Animation(targets, duration) ==
    [state |-> "Idle", elapsed |-> 0, duration |-> duration, targets |-> targets]

\* start(): requires Idle; elapsed = 0, state = Running
AnimationStart(anim) == [anim EXCEPT !.state = "Running", !.elapsed = 0]

\* the elapsed time after step( dt ): min( duration, elapsed + dt )
ElapsedAfter(anim, dt) == Min(anim.duration, anim.elapsed + dt)

\* step( dt ): the engine after the step; Ended once elapsed = duration
AnimationStep(anim, dt) ==
    [anim EXCEPT !.elapsed = ElapsedAfter(anim, dt),
                 !.state = IF ElapsedAfter(anim, dt) = anim.duration THEN "Ended" ELSE "Running"]

\* mutant: a quadratic default easing
RatioOf_Quadratic(anim) == Rat(anim.elapsed * anim.elapsed, anim.duration * anim.duration)

\* the ratio of a step: easing( elapsed / duration ) with the default (identity) easing
RatioOf(anim) == Rat(anim.elapsed, anim.duration)

\* stop(): Stopped, no attribute is written
AnimationStop(anim) == [anim EXCEPT !.state = "Stopped"]

\* what a call of the engine did: whether it was refused as a usage error, wrote the
\* targets, fired ended
EngineCall(op, error, wrote, fired) ==
    [op |-> op, error |-> error, wrote |-> wrote, fired |-> fired]

NoCall == EngineCall("", FALSE, FALSE, FALSE)

\* the engine and its one target's attribute after a call, with what the call did
EngineResult(anim, value, call) == [animation |-> anim, value |-> value, call |-> call]

\* a call in a state that does not allow it: a usage error, nothing changes
UsageError(anim, value, op) == EngineResult(anim, value, EngineCall(op, TRUE, FALSE, FALSE))

\* start() of an engine with one target: requires Idle; an unset from is the
\* attribute's current value; nothing is written
EngineStart(anim, value) ==
    IF anim.state # "Idle" THEN UsageError(anim, value, "start")
    ELSE EngineResult([AnimationStart(anim) EXCEPT !.targets[1].from =
                           IF @ = "unset" THEN value ELSE @],
                      value, EngineCall("start", FALSE, FALSE, FALSE))

\* mutant: step() of an engine that is not running is ignored silently
EngineStep_Lenient(anim, value, dt) ==
    IF anim.state # "Running"
    THEN EngineResult(anim, value, EngineCall("step", FALSE, FALSE, FALSE))
    ELSE EngineResult(AnimationStep(anim, dt),
                      BlendOf(anim.targets[1], RatioOf(AnimationStep(anim, dt))),
                      EngineCall("step", FALSE, TRUE, AnimationStep(anim, dt).state = "Ended"))

\* step( dt ) of an engine with one target: requires Running; writes the target,
\* fires ended when the duration is reached
EngineStep(anim, value, dt) ==
    IF anim.state # "Running" THEN UsageError(anim, value, "step")
    ELSE EngineResult(AnimationStep(anim, dt),
                      BlendOf(anim.targets[1], RatioOf(AnimationStep(anim, dt))),
                      EngineCall("step", FALSE, TRUE, AnimationStep(anim, dt).state = "Ended"))

\* mutant: stop() forces the attribute to its end value
EngineStop_Snaps(anim, value) ==
    IF anim.state # "Running" THEN UsageError(anim, value, "stop")
    ELSE EngineResult(AnimationStop(anim), anim.targets[1].to,
                      EngineCall("stop", FALSE, TRUE, TRUE))

\* stop() of an engine with one target: requires Running; writes nothing, fires ended
EngineStop(anim, value) ==
    IF anim.state # "Running" THEN UsageError(anim, value, "stop")
    ELSE EngineResult(AnimationStop(anim), value, EngineCall("stop", FALSE, FALSE, TRUE))

\* ------------------------------------------------------------- Transition

\* a transition request's options: the duration, dissolve's gamma, and the required
\* keys the options override with null
Options(duration, gamma, nulled) == [duration |-> duration, gamma |-> gamma, nulled |-> nulled]

\* the ended listener of a caller that only looks at the node
NoRequest == "observe"

\* what a failed construction (a thrown assertion or TypeError) yields
Failed == [state |-> "failed"]

\* new Transition( fromNode, toNode, config )
Transition(fromNode, toNode, config) ==
    LET missing == config.nulled
        fromTargets == [i \in DOMAIN config.fromTargets |->
                           [config.fromTargets[i] EXCEPT !.object = fromNode]]
        toTargets == [i \in DOMAIN config.toTargets |->
                         [config.toTargets[i] EXCEPT !.object = toNode]]
    IN  IF assertEnabled /\ missing # {} THEN Failed
        ELSE IF fromNode # Null /\ "fromTargets" \in missing THEN Failed
        ELSE IF toNode # Null /\ "toTargets" \in missing THEN Failed
        ELSE [state |-> "Idle", elapsed |-> 0, duration |-> config.duration,
              targets |-> (IF fromNode # Null THEN fromTargets ELSE <<>>) \o
                          (IF toNode # Null THEN toTargets ELSE <<>>),
              fromNode |-> fromNode, toNode |-> toNode, resetNode |-> config.resetNode,
              hasResetNode |-> "resetNode" \notin missing, onEnded |-> NoRequest]

\* one entry of fromTargets / toTargets
Target(attribute, from, to, blend, gamma) ==
    [object |-> Null, attribute |-> attribute, from |-> from, to |-> to,
     blend |-> blend, gamma |-> gamma]

\* mutant: the incoming element starts at -size whatever the direction
createSlide_Unsigned(fromNode, toNode, attribute, size, reversed, options) ==
    LET sign == IF reversed THEN RInt(-1) ELSE RInt(1)
    IN  Transition(fromNode, toNode,
            [fromTargets |-> <<Target(attribute, RInt(0), RMul(size, sign), "linear", 1)>>,
             toTargets |-> <<Target(attribute, RNeg(size), RInt(0), "linear", 1)>>,
             resetNode |-> [attribute |-> attribute, value |-> "0"],
             duration |-> options.duration, nulled |-> options.nulled])

\* Transition.createSlide
createSlide(fromNode, toNode, attribute, size, reversed, options) ==
    LET sign == IF reversed THEN RInt(-1) ELSE RInt(1)
    IN  Transition(fromNode, toNode,
            [fromTargets |-> <<Target(attribute, RInt(0), RMul(size, sign), "linear", 1)>>,
             toTargets |-> <<Target(attribute, RMul(RNeg(size), sign), RInt(0), "linear", 1)>>,
             resetNode |-> [attribute |-> attribute, value |-> "0"],
             duration |-> options.duration, nulled |-> options.nulled])

\* Transition.createWipe
createWipe(bounds, fromNode, toNode, minAttribute, maxAttribute, options) ==
    LET fromNodeBounds == [bounds EXCEPT ![minAttribute] = bounds[maxAttribute]]
        toNodeBounds == [bounds EXCEPT ![maxAttribute] = bounds[minAttribute]]
    IN  Transition(fromNode, toNode,
            [fromTargets |-> <<Target("clipArea", bounds, fromNodeBounds, "clip", 1)>>,
             toTargets |-> <<Target("clipArea", toNodeBounds, bounds, "clip", 1)>>,
             resetNode |-> [attribute |-> "clipArea", value |-> "null"],
             duration |-> options.duration, nulled |-> options.nulled])

\* Transition.dissolve
dissolve(fromNode, toNode, options) ==
    Transition(fromNode, toNode,
        [fromTargets |-> <<Target("opacity", RInt(1), RInt(0), "gamma", options.gamma)>>,
         toTargets |-> <<Target("opacity", RInt(0), RInt(1), "gamma", options.gamma)>>,
         resetNode |-> [attribute |-> "opacity", value |-> "1"],
         duration |-> options.duration, nulled |-> options.nulled])

Width(bounds) == RSub(bounds.maxX, bounds.minX)
Height(bounds) == RSub(bounds.maxY, bounds.minY)

slideLeft(bounds, fromNode, toNode, options) ==
    createSlide(fromNode, toNode, "x", Width(bounds), TRUE, options)
slideRight(bounds, fromNode, toNode, options) ==
    createSlide(fromNode, toNode, "x", Width(bounds), FALSE, options)
slideUp(bounds, fromNode, toNode, options) ==
    createSlide(fromNode, toNode, "y", Height(bounds), TRUE, options)
slideDown(bounds, fromNode, toNode, options) ==
    createSlide(fromNode, toNode, "y", Height(bounds), FALSE, options)
wipeLeft(bounds, fromNode, toNode, options) ==
    createWipe(bounds, fromNode, toNode, "maxX", "minX", options)
wipeRight(bounds, fromNode, toNode, options) ==
    createWipe(bounds, fromNode, toNode, "minX", "maxX", options)
wipeUp(bounds, fromNode, toNode, options) ==
    createWipe(bounds, fromNode, toNode, "maxY", "minY", options)
wipeDown(bounds, fromNode, toNode, options) ==
    createWipe(bounds, fromNode, toNode, "minY", "maxY", options)

\* ------------------------------------------- the state a call works on

\* what an observer sees of the node at one instant: the content, whether a
\* transition is active, and which elements are locked (pickable = false), attached,
\* visible, or hold a non-default value of an animated attribute
Snapshot(w) ==
    [fromContent |-> w.fromContent, toContent |-> w.toContent,
     active |-> w.transition # NoTransition,
     locked |-> {e \in Elements : w.nodes[e].pickable = "false"},
     attached |-> {e \in Elements : w.children[e] > 0},
     shown |-> {e \in Elements : w.nodes[e].visible},
     animated |-> {e \in Elements :
                     [w.nodes[e] EXCEPT !.visible = TRUE, !.pickable = "null"] # DefaultNode}]

\* the running call records one thing it did
Event(w, ev, el) == [w EXCEPT !.events = Append(@, [ev |-> ev, el |-> el])]

\* the running call records what the node looks like where it stands
Observe(w, ev, el) ==
    [w EXCEPT !.events = Append(@, [ev |-> ev, el |-> el, snap |-> Snapshot(w)])]

\* the state at the entry of the public operation op
Call(op) ==
    Event([fromContent |-> fromContent, toContent |-> toContent, transition |-> transition,
           children |-> children, clipArea |-> clipArea, localBounds |-> localBounds,
           nodes |-> nodes, boundsValue |-> boundsValue, linked |-> linked,
           thrown |-> FALSE, events |-> <<>>], "call", op)

\* an exception leaves the call: nothing after it runs
Throw(w, what) == Event([w EXCEPT !.thrown = TRUE], "throw", what)

\* ------------------------------------------------- scenery Node children

hasChild(w, node) == w.children[node] > 0

\* addChild( node ): appends to the children array; scenery asserts that the node
\* is not a child already
addChild(w, node) ==
    IF assertEnabled /\ hasChild(w, node) THEN Throw(w, "Parent already contains child")
    ELSE [w EXCEPT !.children[node] = @ + 1]

\* removeChild( node ): removes one occurrence; scenery asserts that the node is a child
removeChild(w, node) ==
    IF ~hasChild(w, node) THEN Throw(w, "removeChild: not a child")
    ELSE [w EXCEPT !.children[node] = @ - 1]

\* ------------------------------------------------ the ended notification

\* the value a resetNode function assigns, written as in its source: 0, 1 or null
Literal(text) ==
    CASE text = "0" -> RInt(0)
      [] text = "1" -> RInt(1)
      [] text = "null" -> NoClip

\* mutant: resetNode leaves the attribute as it is
resetNode_Keeps(w, tr, node) ==
    IF ~tr.hasResetNode THEN Throw(w, "config.resetNode is not a function")
    ELSE Event(w, "reset", node)

\* config.resetNode( node ) of the Transition's factory
resetNode(w, tr, node) ==
    IF ~tr.hasResetNode THEN Throw(w, "config.resetNode is not a function")
    ELSE Event([w EXCEPT !.nodes[node][tr.resetNode.attribute] =
                            Literal(tr.resetNode.value)],
               "reset", node)

\* mutant: only the fromNode is reset
TransitionEndedListener_FromOnly(w, tr) ==
    IF tr.fromNode # Null THEN resetNode(w, tr, tr.fromNode) ELSE w

\* the Transition's own ended listener: reset the values for both nodes
TransitionEndedListener(w, tr) ==
    LET w1 == IF tr.fromNode # Null THEN resetNode(w, tr, tr.fromNode) ELSE w
    IN  IF w1.thrown \/ tr.toNode = Null THEN w1 ELSE resetNode(w1, tr, tr.toNode)

\* mutant: only fromContent gets its pickable back
RestorePickable_FromOnly(w) ==
    IF w.fromContent # Null THEN [w EXCEPT !.nodes[w.fromContent].pickable = "null"] ELSE w

\* self.fromContent.pickable = null; self.toContent.pickable = null
RestorePickable(w) ==
    LET w1 == IF w.fromContent # Null
              THEN [w EXCEPT !.nodes[w.fromContent].pickable = "null"] ELSE w
    IN  IF w1.toContent # Null
        THEN [w1 EXCEPT !.nodes[w1.toContent].pickable = "null"] ELSE w1

\* mutant: a cached fromContent is not hidden
RetireFromContent_StaysVisible(w) ==
    IF w.fromContent = Null \/ w.fromContent \in cachedNodes THEN w
    ELSE removeChild(w, w.fromContent)

\* hide (cached) or detach (not cached) the old fromContent, then check the children
RetireFromContent(w) ==
    IF w.fromContent = Null THEN w
    ELSE LET w1 == IF w.fromContent \in cachedNodes
                   THEN [w EXCEPT !.nodes[w.fromContent].visible = FALSE]
                   ELSE removeChild(w, w.fromContent)
         IN  IF w1.thrown THEN w1
             ELSE IF assertEnabled
                     /\ hasChild(w1, w1.fromContent) # (w1.fromContent \in cachedNodes)
             THEN Throw(w1, "Should have removed the child")
             ELSE w1

\* mutant: toContent is cleared without being promoted
PromoteToContent_Dropped(w) == [w EXCEPT !.toContent = Null]

\* mutant: toContent is promoted without being cleared
PromoteToContent_Kept(w) == [w EXCEPT !.fromContent = w.toContent]

\* self.fromContent = self.toContent; self.toContent = null
PromoteToContent(w) == [w EXCEPT !.fromContent = w.toContent, !.toContent = Null]

\* mutant: an uncached fromContent is not detached
NodeEndedListener_NoDetach(w) ==
    LET w1 == [RestorePickable(w) EXCEPT !.transition = NoTransition]
        w2 == IF w1.fromContent # Null /\ w1.fromContent \in cachedNodes
              THEN [w1 EXCEPT !.nodes[w1.fromContent].visible = FALSE] ELSE w1
    IN  Observe(PromoteToContent(w2), "cleanup", "")

\* mutant: this.transition is not cleared
NodeEndedListener_KeepsTransition(w) ==
    LET w1 == RetireFromContent(RestorePickable(w))
    IN  IF w1.thrown THEN w1 ELSE Observe(PromoteToContent(w1), "cleanup", "")

\* the listener startTransition adds to transition.endedEmitter
NodeEndedListener(w) ==
    LET w1 == RetireFromContent([RestorePickable(w) EXCEPT !.transition = NoTransition])
    IN  IF w1.thrown THEN w1 ELSE Observe(PromoteToContent(w1), "cleanup", "")

\* transition.start()
TransitionStart(w) ==
    IF w.transition.state # "Idle" THEN Throw(w, "start: not idle")
    ELSE Observe([w EXCEPT !.transition = AnimationStart(@)], "start", "")

\* mutant: a cached content is not made visible
ShowContent_NoShow(w, content) ==
    IF content = Null \/ content \in cachedNodes THEN w ELSE addChild(w, content)

\* show (cached) or attach (not cached) the new content
ShowContent(w, content) ==
    IF content = Null THEN w
    ELSE LET w1 == IF content \in cachedNodes
                   THEN [w EXCEPT !.nodes[content].visible = TRUE]
                   ELSE addChild(w, content)
         IN  IF w1.thrown THEN w1
             ELSE IF assertEnabled /\ ~hasChild(w1, content)
             THEN Throw(w1, "Should always have the content as a child")
             ELSE w1

\* this.fromContent.pickable = false; this.toContent.pickable = false
LockPickable(w) ==
    LET w1 == IF w.fromContent # Null
              THEN [w EXCEPT !.nodes[w.fromContent].pickable = "false"] ELSE w
    IN  IF w1.toContent # Null
        THEN [w1 EXCEPT !.nodes[w1.toContent].pickable = "false"] ELSE w1

\* startTransition after its interrupt(): the content is shown or attached, the
\* Transition is installed, the elements are locked, the cleanup is added to its
\* ended listeners and it is started
InstallTransition(w, content, tr) ==
    LET w2 == ShowContent([w EXCEPT !.toContent = content], content)
    IN  IF w2.thrown THEN w2
        ELSE TransitionStart(LockPickable([w2 EXCEPT !.transition = tr]))

\* the duration of the transition that a caller's ended listener requests
ListenerDuration == 1

\* node.slideLeftTo( content ) called by a caller's ended listener: the cleanup, which
\* ran before the listener, has cleared this.transition, so that neither interrupt()
\* of the request finds a transition to stop
ListenerSlideLeftTo(w, content, config) ==
    InstallTransition(w, content, slideLeft(w.boundsValue, w.fromContent, content, config))

\* a listener the caller added to the endedEmitter of the Transition that xxxTo
\* returned: it looks at the node and, if the caller wrote it so, requests the next
\* transition
CallerEndedListener(w, tr) ==
    IF tr.onEnded = NoRequest THEN Observe(w, "listener", "")
    ELSE ListenerSlideLeftTo(Observe(w, "listener", ""), tr.onEnded,
                             Options(ListenerDuration, 1, {}))

\* endedEmitter.emit(): the listeners in the order they were added
EndedEmit(w, tr) ==
    LET w0 == [w EXCEPT !.events = Append(@, [ev |-> "ended", el |-> tr.toNode,
                                                from |-> tr.fromNode])]
        w1 == TransitionEndedListener(w0, tr)
        w2 == IF w1.thrown THEN w1 ELSE NodeEndedListener(w1)
    IN  IF w2.thrown THEN w2 ELSE CallerEndedListener(w2, tr)

\* ----------------------------------------- the engine run by the node

\* the writes of one step: every target, in order, with the same ratio
RECURSIVE WriteTargets(_, _, _, _)
WriteTargets(w, targets, ratio, i) ==
    IF i > Len(targets) THEN w
    ELSE WriteTargets(
             [w EXCEPT !.nodes[targets[i].object][targets[i].attribute] =
                          BlendOf(targets[i], ratio)],
             targets, ratio, i + 1)

\* whether a step has left an element at a value that is not its default one
Progress(w) == IF Snapshot(w).animated # {} THEN "animated" ELSE ""

\* mutant: stop() does not emit ended
TransitionStop_Silent(w) ==
    IF w.transition.state # "Running" THEN Throw(w, "stop: not running")
    ELSE Event([w EXCEPT !.transition = AnimationStop(@)], "stop", "")

\* transition.stop()
TransitionStop(w) ==
    IF w.transition.state # "Running" THEN Throw(w, "stop: not running")
    ELSE EndedEmit(Event([w EXCEPT !.transition = AnimationStop(@)], "stop", Progress(w)),
                   w.transition)

\* transition.step( dt )
TransitionStep(w, dt) ==
    IF w.transition.state # "Running" THEN Throw(w, "step: not running")
    ELSE LET anim == AnimationStep(w.transition, dt)
             w1 == Event(WriteTargets([w EXCEPT !.transition = anim], anim.targets,
                                      RatioOf(anim), 1), "step", "")
         IN  IF anim.state = "Ended" THEN EndedEmit(w1, anim) ELSE w1

\* ---------------------------------------------------------- TransitionNode

\* mutant: the transition is stepped by a fixed frame time instead of dt
step_FixedFrame(w, dt) == IF w.transition # NoTransition THEN TransitionStep(w, 1) ELSE w

\* mutant: step() is called without the check for an active transition
step_Unguarded(w, dt) == TransitionStep(w, dt)

\* step( dt ): this.transition && this.transition.step( dt )
step(w, dt) == IF w.transition # NoTransition THEN TransitionStep(w, dt) ELSE w

\* mutant: stop() is called without the check for an active transition
interrupt_Unguarded(w) == TransitionStop(w)

\* interrupt(): this.transition && this.transition.stop()
interrupt(w) == IF w.transition # NoTransition THEN TransitionStop(w) ELSE w

\* mutant: the bounds change does not interrupt
onBoundsChange_NoInterrupt(w, bounds) ==
    [w EXCEPT !.clipArea = IF useBoundsClip THEN bounds ELSE @, !.localBounds = bounds]

\* onBoundsChange( bounds )
onBoundsChange(w, bounds) ==
    LET w1 == interrupt(w)
    IN  IF w1.thrown THEN w1
        ELSE [w1 EXCEPT !.clipArea = IF useBoundsClip THEN bounds ELSE @,
                        !.localBounds = bounds]

\* startTransition( content, transition )
startTransition(w, content, tr) ==
    LET w1 == interrupt(w)
    IN  IF w1.thrown THEN w1 ELSE InstallTransition(w1, content, tr)

\* mutant: toContent is assigned before the Transition is constructed
StartBuilt_AssignsFirst(w, content, tr) ==
    IF w.thrown THEN w
    ELSE IF tr = Failed
    THEN Throw([w EXCEPT !.toContent = content], "Transition construction failed")
    ELSE startTransition(w, content, tr)

\* the body shared by the nine xxxTo operations: the Transition is built from the
\* state interrupt() leaves, and a failed construction leaves the call
StartBuilt(w, content, tr) ==
    IF w.thrown THEN w
    ELSE IF tr = Failed THEN Throw(w, "Transition construction failed")
    ELSE startTransition(w, content, tr)

slideLeftTo(w, content, config) ==
    LET w1 == interrupt(w)
    IN  StartBuilt(w1, content, slideLeft(w1.boundsValue, w1.fromContent, content, config))
slideRightTo(w, content, config) ==
    LET w1 == interrupt(w)
    IN  StartBuilt(w1, content, slideRight(w1.boundsValue, w1.fromContent, content, config))
slideUpTo(w, content, config) ==
    LET w1 == interrupt(w)
    IN  StartBuilt(w1, content, slideUp(w1.boundsValue, w1.fromContent, content, config))
slideDownTo(w, content, config) ==
    LET w1 == interrupt(w)
    IN  StartBuilt(w1, content, slideDown(w1.boundsValue, w1.fromContent, content, config))
wipeLeftTo(w, content, config) ==
    LET w1 == interrupt(w)
    IN  StartBuilt(w1, content, wipeLeft(w1.boundsValue, w1.fromContent, content, config))
wipeRightTo(w, content, config) ==
    LET w1 == interrupt(w)
    IN  StartBuilt(w1, content, wipeRight(w1.boundsValue, w1.fromContent, content, config))
wipeUpTo(w, content, config) ==
    LET w1 == interrupt(w)
    IN  StartBuilt(w1, content, wipeUp(w1.boundsValue, w1.fromContent, content, config))
wipeDownTo(w, content, config) ==
    LET w1 == interrupt(w)
    IN  StartBuilt(w1, content, wipeDown(w1.boundsValue, w1.fromContent, content, config))
dissolveTo(w, content, config) ==
    LET w1 == interrupt(w)
    IN  StartBuilt(w1, content, dissolve(w1.fromContent, content, config))

\* dispose(): interrupt, unlink the bounds listener, Node.prototype.dispose
dispose(w) ==
    LET w1 == interrupt(w)
    IN  IF w1.thrown THEN w1 ELSE [w1 EXCEPT !.linked = FALSE]

\* ------------------------------------------------------------- the node's runs

\* the cachedNodes option of the constructor
CachedChoices == {{}, {"a"}, {"a", "b"}}

Durations == 1..MaxDuration
Gammas == {1, 2}

\* the state a call leaves becomes the node's state
Commit(w) ==
    /\ fromContent' = w.fromContent
    /\ toContent' = w.toContent
    /\ transition' = w.transition
    /\ children' = w.children
    /\ clipArea' = w.clipArea
    /\ localBounds' = w.localBounds
    /\ nodes' = w.nodes
    /\ boundsValue' = w.boundsValue
    /\ linked' = w.linked
    /\ events' = w.events
    /\ UNCHANGED <<cachedNodes, useBoundsClip, assertEnabled, testVars>>

\* new TransitionNode( boundsProperty, { content, useBoundsClip, cachedNodes } ):
\* link() calls onBoundsChange with the current bounds at once
NodeInit ==
    /\ cachedNodes \in CachedChoices
    /\ useBoundsClip \in BOOLEAN
    /\ assertEnabled \in BOOLEAN
    /\ boundsValue \in BoundsValues
    /\ fromContent \in Contents
    /\ toContent = Null
    /\ transition = NoTransition
    /\ children = [e \in Elements |-> IF e \in cachedNodes \/ e = fromContent THEN 1 ELSE 0]
    /\ nodes = [e \in Elements |->
                  [DefaultNode EXCEPT !.visible = IF e \in cachedNodes THEN e = fromContent
                                                   ELSE TRUE]]
    /\ linked = TRUE
    /\ clipArea = IF useBoundsClip THEN boundsValue ELSE NoClip
    /\ localBounds = boundsValue
    /\ events = <<>>

\* the unit test's objects are not part of a node's run
TestIdle ==
    /\ animation = NoTransition
    /\ numberProperty = RInt(0)
    /\ elapsedTotal = 0
    /\ engineCall = NoCall

Init == NodeInit /\ TestIdle

Step ==
    \E dt \in 0..MaxDt : linked /\ Commit(step(Call("step"), dt))

Interrupt ==
    linked /\ Commit(interrupt(Call("interrupt")))

\* boundsProperty.value = bounds: the listeners are notified when the value changes
BoundsChange ==
    \E bounds \in BoundsValues \ {boundsValue} :
        IF linked
        THEN Commit(onBoundsChange([Call("bounds") EXCEPT !.boundsValue = bounds], bounds))
        ELSE Commit([Call("bounds") EXCEPT !.boundsValue = bounds])

SlideLeftTo ==
    \E content \in Contents, duration \in Durations :
        linked /\ Commit(slideLeftTo(Call("slideLeftTo"), content, Options(duration, 1, {})))

SlideRightTo ==
    \E content \in Contents, duration \in Durations :
        linked /\ Commit(slideRightTo(Call("slideRightTo"), content, Options(duration, 1, {})))

SlideUpTo ==
    \E content \in Contents, duration \in Durations :
        linked /\ Commit(slideUpTo(Call("slideUpTo"), content, Options(duration, 1, {})))

SlideDownTo ==
    \E content \in Contents, duration \in Durations :
        linked /\ Commit(slideDownTo(Call("slideDownTo"), content, Options(duration, 1, {})))

WipeLeftTo ==
    \E content \in Contents, duration \in Durations :
        linked /\ Commit(wipeLeftTo(Call("wipeLeftTo"), content, Options(duration, 1, {})))

WipeRightTo ==
    \E content \in Contents, duration \in Durations :
        linked /\ Commit(wipeRightTo(Call("wipeRightTo"), content, Options(duration, 1, {})))

WipeUpTo ==
    \E content \in Contents, duration \in Durations :
        linked /\ Commit(wipeUpTo(Call("wipeUpTo"), content, Options(duration, 1, {})))

WipeDownTo ==
    \E content \in Contents, duration \in Durations :
        linked /\ Commit(wipeDownTo(Call("wipeDownTo"), content, Options(duration, 1, {})))

DissolveTo ==
    \E content \in Contents, duration \in Durations, gamma \in Gammas :
        linked /\ Commit(dissolveTo(Call("dissolveTo"), content, Options(duration, gamma, {})))

Dispose ==
    linked /\ Commit(dispose(Call("dispose")))

Next ==
    \/ Step
    \/ Interrupt
    \/ BoundsChange
    \/ SlideLeftTo
    \/ SlideRightTo
    \/ SlideUpTo
    \/ SlideDownTo
    \/ WipeLeftTo
    \/ WipeRightTo
    \/ WipeUpTo
    \/ WipeDownTo
    \/ DissolveTo
    \/ Dispose

Spec == Init /\ [][Next]_vars

\* ------------------------------------- a driver that keeps stepping the node

\* the driver's frame callback: step( dt ) with dt > 0
StepForward ==
    \E dt \in 1..MaxDt : linked /\ Commit(step(Call("step"), dt))

\* a frame in which no time has passed
StepZero ==
    linked /\ Commit(step(Call("step"), 0))

\* a transition is requested only while none is active
IdleRequest ==
    /\ transition = NoTransition
    /\ \/ SlideLeftTo
       \/ SlideRightTo
       \/ SlideUpTo
       \/ SlideDownTo
       \/ WipeLeftTo
       \/ WipeRightTo
       \/ WipeUpTo
       \/ WipeDownTo
       \/ DissolveTo

NextLive == StepForward \/ StepZero \/ IdleRequest

\* StepForward can change the state: a transition is active, or the last call was
\* not a step already (this is ENABLED <<StepForward>>_vars, written out)
StepForwardEnabled ==
    linked /\ (transition # NoTransition \/ events # <<[ev |-> "call", el |-> "step"]>>)

\* the driver never stops calling step with dt > 0: weak fairness of StepForward
DriverKeepsStepping ==
    []<>(~StepForwardEnabled) \/ []<><<StepForward>>_vars

SpecLive == Init /\ [][NextLive]_vars /\ DriverKeepsStepping

\* ------------------------------------- content that comes with its own visibility

\* the elements are the caller's Nodes: one that is not cached has the visible flag
\* its owner gave it (the constructor sets the flag of the cached ones only)
InitVisible ==
    /\ cachedNodes \in CachedChoices
    /\ useBoundsClip \in BOOLEAN
    /\ assertEnabled \in BOOLEAN
    /\ boundsValue \in BoundsValues
    /\ fromContent \in Contents
    /\ toContent = Null
    /\ transition = NoTransition
    /\ children = [e \in Elements |-> IF e \in cachedNodes \/ e = fromContent THEN 1 ELSE 0]
    /\ \E given \in [Elements -> BOOLEAN] :
          nodes = [e \in Elements |->
                      [DefaultNode EXCEPT !.visible = IF e \in cachedNodes THEN e = fromContent
                                                       ELSE given[e]]]
    /\ linked = TRUE
    /\ clipArea = IF useBoundsClip THEN boundsValue ELSE NoClip
    /\ localBounds = boundsValue
    /\ events = <<>>
    /\ TestIdle

NextVisible == SlideLeftTo \/ DissolveTo \/ Step \/ Interrupt

SpecVisible == InitVisible /\ [][NextVisible]_vars

\* ------------------------------------- a caller whose ended listener requests

\* transition.endedEmitter.addListener( function() { node.slideLeftTo( content ) } ) on
\* the Transition that the last request returned
AddEndedListener ==
    \E content \in Contents :
        /\ linked
        /\ transition # NoTransition
        /\ transition.onEnded = NoRequest
        /\ Commit([Call("addListener") EXCEPT !.transition.onEnded = content])

NextReentrant ==
    \/ AddEndedListener
    \/ SlideLeftTo
    \/ Step
    \/ Interrupt
    \/ BoundsChange

SpecReentrant == Init /\ [][NextReentrant]_vars

\* ------------------------------------- requests with a malformed configuration

\* the keys a Transition's config must carry
RequiredKeys == {"fromTargets", "toTargets", "resetNode"}

\* slideLeftTo with a config that sets one of the required keys to null (the nine
\* operations build their Transition and start it the same way)
MalformedSlideLeftTo ==
    \E content \in Contents, key \in RequiredKeys :
        linked /\ Commit(slideLeftTo(Call("slideLeftTo"), content,
                                      Options(MaxDuration, 1, {key})))

NextConfig == Next \/ MalformedSlideLeftTo

SpecConfig == Init /\ [][NextConfig]_vars

\* ------------------------------------------- the unit test of the Animation

\* const targetValue = 7
targetValue == 7
\* duration: 2
TestDuration == 2
\* animation.step( 0.1 ): one tick is 1/TicksPerUnit
TicksPerUnit == 10

TargetValues == {targetValue, targetValue + 1, -targetValue}
TestDurations == {TestDuration * TicksPerUnit + k : k \in 0..ExtraDurations}

\* no node operation runs during the unit test
NodeIdle ==
    /\ NodeInit
    /\ cachedNodes = {}
    /\ useBoundsClip
    /\ assertEnabled
    /\ boundsValue = Bounds(0, 0, 4, 2)
    /\ fromContent = Null

\* new NumberProperty( 0 ); new Animation( { duration, property, to } )
TestInit ==
    /\ NodeIdle
    /\ numberProperty = RInt(0)
    /\ elapsedTotal = 0
    /\ engineCall = NoCall
    /\ \E to \in TargetValues, duration \in TestDurations :
          animation = Animation(<<[Target("value", "unset", RInt(to), "linear", 1)
                                   EXCEPT !.object = "numberProperty"]>>, duration)

\* animation.start(): an unset from is the property's value at the start
TestStart ==
    /\ animation.state = "Idle"
    /\ animation' = [AnimationStart(animation) EXCEPT !.targets[1].from = numberProperty]
    /\ UNCHANGED <<numberProperty, elapsedTotal, engineCall, nodeVars>>

\* animation.step( dt )
TestStep ==
    \E dt \in 0..MaxDt :
        /\ animation.state = "Running"
        /\ animation' = AnimationStep(animation, dt)
        /\ numberProperty' = BlendOf(animation.targets[1], RatioOf(animation'))
        /\ elapsedTotal' = elapsedTotal + dt
        /\ UNCHANGED <<engineCall, nodeVars>>

NextTest == TestStart \/ TestStep

SpecTest == TestInit /\ [][NextTest]_vars

\* --------------------------------- an Animation called in every state it can be in

\* the result of a call becomes the state of the engine and of its target's attribute
EngineCommit(r) ==
    /\ animation' = r.animation
    /\ numberProperty' = r.value
    /\ engineCall' = r.call
    /\ elapsedTotal' = elapsedTotal
    /\ UNCHANGED nodeVars

EngineStartCall == EngineCommit(EngineStart(animation, numberProperty))

EngineStepCall == \E dt \in 0..MaxDt : EngineCommit(EngineStep(animation, numberProperty, dt))

EngineStopCall == EngineCommit(EngineStop(animation, numberProperty))

NextEngine == EngineStartCall \/ EngineStepCall \/ EngineStopCall

SpecEngine == TestInit /\ [][NextEngine]_vars

\* ------------------------------------------------------ reading the events

RequestOps == {"slideLeftTo", "slideRightTo", "slideUpTo", "slideDownTo", "wipeLeftTo",
               "wipeRightTo", "wipeUpTo", "wipeDownTo", "dissolveTo"}

\* the operation of the last call ("" before the first)
LastOp == IF events = <<>> THEN "" ELSE events[1].el

\* the positions in events of the events named ev
Positions(ev) == {i \in DOMAIN events : events[i].ev = ev}

Happened(ev) == Positions(ev) # {}

\* how often the last call reset element e
Resets(e) == Cardinality({i \in Positions("reset") : events[i].el = e})

Active == transition # NoTransition

\* the node as its user sees it (everything but the record of events)
NodeState(w) ==
    [fromContent |-> w.fromContent, toContent |-> w.toContent, transition |-> w.transition,
     children |-> w.children, nodes |-> w.nodes, clipArea |-> w.clipArea,
     localBounds |-> w.localBounds, thrown |-> w.thrown]

\* ------------------------------------------------------------------ claims

\* C1: a transition toward content C that has ended, by whatever route (the last
\* step, interrupt(), a bounds change, a new request, dispose()), leaves
\* fromContent = C, toContent = null and no active transition; and from any state
\* with an active transition, interrupt() and stepping to the full duration leave
\* the same node state.
C1_EndedLeavesContent ==
    /\ \A j \in Positions("ended") :
          \E i \in Positions("cleanup") :
              /\ i > j
              /\ events[i].snap.fromContent = events[j].el
              /\ events[i].snap.toContent = Null
              /\ ~events[i].snap.active
    /\ Active /\ linked =>
          LET stopped == interrupt(Call("interrupt"))
              completed == step(Call("step"), transition.duration - transition.elapsed)
          IN  /\ NodeState(stopped) = NodeState(completed)
              /\ stopped.fromContent = transition.toNode
              /\ stopped.toContent = Null
              /\ stopped.transition = NoTransition

\* a transition to null content that ran to its full duration
C1_Witness ==
    /\ LastOp = "step"
    /\ Happened("cleanup")
    /\ fromContent = Null
    /\ \E j \in Positions("ended") : events[j].from # Null

\* C2 (as claimed): a request made while a transition is active leaves exactly one
\* active transition, the new one, whose start() came after the first one's cleanup
\* had restored pickability, hidden or detached the old fromContent and promoted
\* the old toContent.
C2_MutualExclusion ==
    LastOp \in RequestOps /\ Happened("stop") =>
        /\ Active
        /\ transition.state = "Running"
        /\ transition.elapsed = 0
        /\ Cardinality(Positions("start")) = 1
        /\ Cardinality(Positions("cleanup")) = 1
        /\ \A i \in Positions("cleanup"), j \in Positions("start"), k \in Positions("ended") :
              /\ i < j
              /\ ~events[i].snap.active
              /\ events[i].snap.locked = {}
              /\ events[i].snap.toContent = Null
              /\ events[i].snap.fromContent = events[k].el
              /\ events[k].from # Null /\ events[k].from # events[k].el =>
                    IF events[k].from \in cachedNodes
                    THEN events[k].from \notin events[i].snap.shown
                    ELSE events[k].from \notin events[i].snap.attached

C4_UncachedAttachedIffContent ==
    \A e \in Elements \ cachedNodes :
        children[e] > 0 <=> e \in {fromContent, toContent}

\* a transition from an uncached element to itself has run and ended
C4_Witness ==
    /\ Happened("cleanup")
    /\ \E j \in Positions("ended") :
          events[j].from = events[j].el /\ events[j].el \in Elements \ cachedNodes
    /\ ~Active

\* C5 (as claimed): the call in which a Transition ends resets each participating
\* element exactly once and no other, and leaves every element at its default values.
C5_ResetOncePerElement ==
    \A j \in Positions("ended") :
        /\ \A e \in Elements :
              Resets(e) = IF e \in {events[j].from, events[j].el} THEN 1 ELSE 0
        /\ \A i \in Positions("cleanup") : events[i].snap.animated = {}

\* C5 (amended): the call in which a Transition ends resets its fromNode once and
\* its toNode once when they are not null (so an element that is both is reset
\* twice), resets nothing else, and leaves every element at its default values.
C5_ResetOncePerRole ==
    \A j \in Positions("ended") :
        /\ \A e \in Elements :
              Resets(e) = (IF e = events[j].from THEN 1 ELSE 0)
                          + (IF e = events[j].el THEN 1 ELSE 0)
        /\ \A i \in Positions("cleanup") : i > j /\ events[i].snap.animated = {}
        /\ Happened("cleanup")

\* interrupt() has ended a transition between two distinct elements
C5_Witness ==
    /\ LastOp = "interrupt"
    /\ Resets("a") = 1 /\ Resets("b") = 1
    /\ \A e \in Elements : nodes[e].x = RInt(0) /\ nodes[e].y = RInt(0)
                           /\ nodes[e].opacity = RInt(1) /\ nodes[e].clipArea = NoClip

\* C6 (as claimed): toContent is not null exactly when a transition is active and
\* has not ended.
C6_ToContentIffActive ==
    toContent # Null <=> (Active /\ transition.state = "Running")

\* C6 (amended): while a transition is active it is Running and toContent is the
\* content it was requested with, which may be null; with no transition active
\* toContent is null, except after a request for the uncached element that is
\* fromContent already was refused by the child-list assertion, which leaves
\* toContent = fromContent.
C6_ToContentOfActive ==
    /\ Active => transition.state = "Running" /\ toContent = transition.toNode
    /\ ~Active /\ toContent # Null =>
          /\ toContent = fromContent
          /\ toContent \notin cachedNodes
          /\ assertEnabled
          /\ Happened("throw") \/ LastOp \in {"step", "interrupt", "bounds", "dispose"}

\* a transition to null content is active
C6_Witness == Active /\ toContent = Null /\ fromContent # Null

\* C7: interrupt() with no active transition throws nothing and changes nothing;
\* a second interrupt() right after a first changes nothing either.
C7_InterruptIdempotent ==
    linked =>
        LET w0 == Call("interrupt")
            once == interrupt(w0)
            twice == interrupt(once)
        IN  /\ ~Active => NodeState(once) = NodeState(w0) /\ ~once.thrown
            /\ NodeState(twice) = NodeState(once)
            /\ ~twice.thrown

\* interrupt() was called with no transition active
C7_Witness == LastOp = "interrupt" /\ Len(events) = 1 /\ fromContent # Null

\* C9: while the bounds listener is linked the padding region is the bounds value,
\* the clip region is the bounds value if useBoundsClip and was never set if not,
\* and a bounds change leaves no transition active, having ended an active one
\* through the ended cleanup.
C9_BoundsReaction ==
    linked =>
        /\ localBounds = boundsValue
        /\ clipArea = IF useBoundsClip THEN boundsValue ELSE NoClip
        /\ LastOp = "bounds" =>
              /\ ~Active
              /\ ~Happened("throw")
              /\ Happened("stop") => Happened("cleanup")

\* the bounds changed under an active transition of a clipping node
C9_Witness ==
    LastOp = "bounds" /\ Happened("cleanup") /\ useBoundsClip /\ clipArea = boundsValue

\* C8: with one target from 0 to T, the default easing and duration D, steps whose
\* dt sum to D/2 leave the value T/2, and steps whose dt sum to D leave the value T
\* and the engine Ended (T = 7, D = 2: ten steps of 0.1 give 3.5, ten more give 7).
C8_LinearProgression ==
    animation.state \in {"Running", "Ended"} =>
        /\ 2 * elapsedTotal = animation.duration =>
              numberProperty = Rat(animation.targets[1].to[1], 2)
        /\ elapsedTotal = animation.duration =>
              numberProperty = animation.targets[1].to /\ animation.state = "Ended"
        /\ elapsedTotal >= animation.duration <=> animation.state = "Ended"

\* the unit test's first check: T = 7, D = 2, the steps so far sum to 1
C8_Witness ==
    /\ animation.state = "Running"
    /\ animation.duration = TestDuration * TicksPerUnit
    /\ animation.targets[1].to = RInt(targetValue)
    /\ elapsedTotal = TicksPerUnit
    /\ numberProperty = <<7, 2>>

\* a request whose Transition could not be constructed
ConstructionFailed(evs) ==
    \E i \in DOMAIN evs : evs[i].ev = "throw" /\ evs[i].el = "Transition construction failed"

\* C10 (as claimed): a request whose Transition cannot be constructed leaves
\* fromContent, toContent, the active transition, the children and the elements'
\* attributes as they were.
C10_FailedRequestChangesNothing ==
    [][ConstructionFailed(events') =>
          UNCHANGED <<fromContent, toContent, transition, children, nodes>>]_vars

\* C10 (amended): a request whose Transition cannot be constructed starts no
\* transition and writes no attribute for it; with no transition active it leaves
\* the node as it was, and with one active it leaves the node as interrupt() leaves
\* it: the active transition ended through the ended cleanup.
C10_FailedRequestOnlyInterrupts ==
    [][ConstructionFailed(events') =>
          /\ <<fromContent', toContent', transition', children', nodes', clipArea',
               localBounds'>>
             = LET w == interrupt(Call("interrupt"))
               IN  <<w.fromContent, w.toContent, w.transition, w.children, w.nodes,
                     w.clipArea, w.localBounds>>
          /\ transition' = NoTransition
          /\ ~Active => UNCHANGED <<fromContent, toContent, transition, children, nodes>>
          /\ Active => fromContent' = transition.toNode /\ toContent' = Null]_vars

\* the construction failed in a request made while a transition was active
C10_Witness == ConstructionFailed(events) /\ Happened("cleanup")

\* what dispose() does for a node with an active transition, and what a disposed node
\* does on bounds changes: the transition is ended through the ended cleanup, the
\* listener is unlinked, and later bounds changes leave the node alone
TeardownOfActive ==
    [][/\ LastOp' = "dispose" =>
              /\ ~Active' /\ ~linked' /\ ~Happened("throw")'
              /\ Active => Happened("stop")' /\ Happened("cleanup")' /\ toContent' = Null
              /\ ~Active => UNCHANGED <<fromContent, toContent, children, nodes>>
       /\ ~linked => UNCHANGED <<clipArea, localBounds, transition, fromContent, toContent,
                                  children, nodes, linked>>]_vars

\* C11 (as claimed): dispose() ends an active transition through the ended cleanup,
\* so that afterwards no transition is active and toContent is null, and unlinks the
\* bounds listener, so that later bounds changes change neither the clip region,
\* nor the padding region, nor the transition.
C11_DisposeTearsDown ==
    [][/\ LastOp' = "dispose" =>
              /\ ~Active' /\ toContent' = Null /\ ~linked'
              /\ Active => Happened("stop")' /\ Happened("cleanup")'
       /\ ~linked => UNCHANGED <<clipArea, localBounds, transition>>]_vars

\* the events of a call from its n-th on
EventsFrom(evs, n) == SubSeq(evs, n, Len(evs))

\* the call just made took the active transition out of Running
LeftRunning ==
    Active /\ (\/ transition' = NoTransition
               \/ transition'.state # "Running"
               \/ Happened("start")')

\* C12: a call fires ended at most once, and exactly once when it takes the active
\* transition out of Running (the step that reaches the duration, or stop()); the
\* listeners then run in the order they were added (the Transition's reset, the
\* node's cleanup, the caller's listener), and stop() sets off the same chain as the
\* step that completes the transition.
C12_EndedOncePerRun ==
    /\ [](Active /\ linked =>
             LET stopped == interrupt(Call("interrupt"))
                 completed == step(Call("interrupt"), transition.duration - transition.elapsed)
             IN  EventsFrom(stopped.events, 3) = EventsFrom(completed.events, 3))
    /\ [][/\ Cardinality(Positions("ended"))' <= 1
          /\ Happened("ended")' <=> LeftRunning
          /\ \A j \in Positions("ended")' :
                /\ events'[j].el = transition.toNode /\ events'[j].from = transition.fromNode
                /\ Cardinality(Positions("cleanup"))' = 1
                /\ Cardinality(Positions("listener"))' = 1
                /\ \A r \in Positions("reset")', c \in Positions("cleanup")',
                      l \in Positions("listener")' : j < r /\ r < c /\ c < l]_vars

\* a request ended the transition between two elements that was active and started
\* its own
C12_Witness ==
    /\ LastOp \in RequestOps
    /\ Happened("stop") /\ Happened("listener") /\ Happened("start")
    /\ Cardinality(Positions("reset")) = 2

EngineEdges == {<<"Idle", "Running">>, <<"Running", "Ended">>, <<"Running", "Stopped">>}

\* C13: the engine's state changes only from Idle to Running by start(), from
\* Running to Ended by the step() that reaches the duration and from Running to
\* Stopped by stop(); Ended and Stopped are final; step() or stop() of an engine that
\* is not Running is refused as an error and writes nothing, changes no state and
\* fires no ended.
C13_EngineStateMachine ==
    [][/\ animation'.state # animation.state =>
             /\ <<animation.state, animation'.state>> \in EngineEdges
             /\ animation'.state = "Running" => engineCall'.op = "start"
             /\ animation'.state = "Ended" =>
                   engineCall'.op = "step" /\ animation'.elapsed = animation'.duration
             /\ animation'.state = "Stopped" => engineCall'.op = "stop"
       /\ animation.state \in {"Ended", "Stopped"} => animation' = animation
       /\ engineCall'.op \in {"step", "stop"} /\ animation.state # "Running" =>
             /\ engineCall'.error /\ ~engineCall'.wrote /\ ~engineCall'.fired
             /\ UNCHANGED <<animation, numberProperty>>
       /\ engineCall'.op \in {"step", "stop"} /\ animation.state = "Running" =>
             ~engineCall'.error
       /\ engineCall'.fired <=> animation'.state # animation.state /\ animation.state = "Running"
      ]_vars

\* step() was called on an engine that had ended
C13_Witness ==
    engineCall.op = "step" /\ engineCall.error /\ animation.state = "Ended"

\* C15: stop() of a Running engine makes it Stopped and writes no attribute: the
\* target keeps the value of the last step (the value before start() if none ran),
\* which is not its to value.
C15_StopFreezes ==
    [][/\ engineCall'.op = "stop" /\ animation.state = "Running" =>
             /\ animation'.state = "Stopped"
             /\ animation'.elapsed = animation.elapsed
             /\ numberProperty' = numberProperty
             /\ ~engineCall'.wrote
       /\ animation'.state = "Stopped" =>
             /\ numberProperty' = BlendOf(animation'.targets[1], RatioOf(animation'))
             /\ numberProperty' # animation'.targets[1].to
             /\ animation'.elapsed = 0 => numberProperty' = RInt(0)]_vars

\* stop() was called between two steps
C15_Witness ==
    /\ engineCall.op = "stop" /\ ~engineCall.error
    /\ animation.state = "Stopped"
    /\ animation.elapsed > 0
    /\ numberProperty \notin {animation.targets[1].from, animation.targets[1].to}

\* the attributes of an element that transitions animate
Animated(node) == <<node.x, node.y, node.opacity, node.clipArea>>

\* the elements the transition animates
Participants(tr) == {tr.fromNode, tr.toNode} \ {Null}

C16_PickabilityLock ==
    /\ Active => \A e \in {fromContent, toContent} \ {Null} : nodes[e].pickable = "false"
    /\ ~Active => \A e \in Elements : nodes[e].pickable = "null"
    /\ \A i \in Positions("cleanup") : events[i].snap.locked = {}
    /\ \A i \in Positions("start") :
          events[i].snap.locked = {events[i].snap.fromContent, events[i].snap.toContent} \ {Null}

\* the last step has ended a transition between two elements, which were locked
C16_Witness ==
    /\ LastOp = "step" /\ Happened("cleanup") /\ ~Active
    /\ \E j \in Positions("ended") :
          events[j].from # Null /\ events[j].el # Null /\ events[j].from # events[j].el
    /\ \A e \in Elements : nodes[e].pickable = "null"

\* C17 (as claimed): where startTransition has shown or attached a content that is
\* not null and goes on to start the transition, the content is a child of the node
\* and visible.
C17_ContentShownAtStart ==
    \A i \in Positions("start") :
        events[i].snap.toContent # Null =>
            /\ events[i].snap.toContent \in events[i].snap.attached
            /\ events[i].snap.toContent \in events[i].snap.shown

\* a content that startTransition has shown or attached is a child; when cached it is
\* visible, when not it has its own visibility
ContentAttached ==
    /\ \A i \in Positions("start") :
          LET content == events[i].snap.toContent
          IN  content # Null =>
                  /\ content \in events[i].snap.attached
                  /\ content \in cachedNodes => content \in events[i].snap.shown
                  /\ content \notin cachedNodes =>
                        (content \in events[i].snap.shown <=> nodes[content].visible)
    /\ toContent # Null =>
          /\ children[toContent] > 0
          /\ toContent \in cachedNodes => nodes[toContent].visible

\* C17 (amended): where startTransition has shown or attached a content that is not
\* null, the content is a child of the node; a cached content is visible, and one
\* that is not cached has the visibility it came with, which no operation of the
\* node changes.
C17_ContentAttachedAtStart ==
    /\ []ContentAttached
    /\ [][\A e \in Elements \ cachedNodes : nodes'[e].visible = nodes[e].visible]_vars

\* a transition has been started to an element that is not cached and came hidden
C17_Witness ==
    /\ Happened("start") /\ Active
    /\ toContent # Null /\ toContent \notin cachedNodes
    /\ children[toContent] > 0
    /\ ~nodes[toContent].visible

\* the active transition animates two different elements
TwoElements ==
    /\ Active
    /\ transition.fromNode # Null /\ transition.toNode # Null
    /\ transition.fromNode # transition.toNode

\* the value of the attribute that target i of the active transition animates
Written(i) == nodes[transition.targets[i].object][transition.targets[i].attribute]

\* C18: after a step of a transition between two elements every target holds its
\* value at the one ratio of that step; so for a slide the outgoing position minus the
\* incoming one is sign * size, and for a dissolve with gamma 1 the two opacities
\* add up to 1.
C18_TargetsAgree ==
    TwoElements /\ LastOp = "step" =>
        LET outgoing == transition.targets[1]
            incoming == transition.targets[2]
        IN  /\ Len(transition.targets) = 2
            /\ outgoing.object = transition.fromNode /\ incoming.object = transition.toNode
            /\ \A i \in 1..2 :
                  Written(i) = BlendOf(transition.targets[i], RatioOf(transition))
            /\ outgoing.blend = "linear" =>
                  /\ RSub(Written(1), Written(2)) = outgoing.to
                  /\ outgoing.to \in {Width(boundsValue), RNeg(Width(boundsValue)),
                                       Height(boundsValue), RNeg(Height(boundsValue))}
            /\ outgoing.blend = "gamma" /\ outgoing.gamma = 1 =>
                  RAdd(Written(1), Written(2)) = RInt(1)

\* a slide between two elements is under way, neither at its start nor at its end
C18_Witness ==
    /\ TwoElements /\ LastOp = "step"
    /\ transition.targets[1].blend = "linear"
    /\ 0 < transition.elapsed /\ transition.elapsed < transition.duration
    /\ Written(1) # RInt(0) /\ Written(2) # RInt(0)

\* a step with dt = 0 leaves the active transition running where it was
ZeroStepKeepsRunning ==
    Active /\ linked =>
        LET w == step(Call("step"), 0)
        IN  /\ w.transition # NoTransition
            /\ w.transition.state = "Running"
            /\ w.transition.elapsed = transition.elapsed
            /\ w.fromContent = fromContent /\ w.toContent = toContent

\* C19: while the driver keeps calling step( dt ) with dt > 0 and no request is made
\* during a transition, an active transition toward content c leads to the state with
\* no active transition and fromContent = c; steps with dt = 0 never end it.
C19_SteppingEnds ==
    /\ \A c \in Contents : (Active /\ toContent = c) ~> (~Active /\ fromContent = c)
    /\ []ZeroStepKeepsRunning

\* the driver's steps have ended a transition of the longest duration
C19_Witness ==
    /\ LastOp = "step" /\ Happened("cleanup") /\ ~Active
    /\ \E i \in Positions("step") : TRUE
    /\ fromContent # Null

\* C20: when a transition started through the node ends, the Transition's reset of
\* its elements runs first, then the node's cleanup, then the listener the caller
\* added to the returned Transition; that listener sees the node with no active
\* transition, toContent = null and fromContent the content that was requested, the
\* elements reset and unlocked and the old fromContent hidden or detached.
C20_CallerListenerLast ==
    /\ Happened("ended") /\ ~Happened("throw") => Happened("listener")
    /\ \A l \in Positions("listener") :
          /\ \E j \in Positions("ended"), c \in Positions("cleanup") :
                /\ j < c /\ c < l
                /\ \A r \in Positions("reset") : j < r /\ r < c
                /\ {events[r].el : r \in Positions("reset")}
                      = {events[j].from, events[j].el} \ {Null}
                /\ events[l].snap.fromContent = events[j].el
                /\ events[l].snap = events[c].snap
                /\ events[j].from \notin {Null, events[j].el} =>
                      IF events[j].from \in cachedNodes
                      THEN events[j].from \notin events[l].snap.shown
                      ELSE events[j].from \notin events[l].snap.attached
          /\ ~events[l].snap.active
          /\ events[l].snap.toContent = Null
          /\ events[l].snap.locked = {}
          /\ events[l].snap.animated = {}

\* the caller's listener ran inside a request that went on to start the next
\* transition
C20_Witness ==
    /\ LastOp \in RequestOps /\ Active
    /\ \E l \in Positions("listener"), k \in Positions("start") :
          /\ l < k
          /\ events[l].snap.fromContent # Null
          /\ events[l].snap.fromContent = fromContent
          /\ ~events[l].snap.active

\* the participants stop agreeing only in a request that ended a transition whose
\* listener made a request of its own (two transitions were started in the one call)
AgreeUnlessReentered ==
    [][(Active => transition.fromNode = fromContent /\ transition.toNode = toContent)
       /\ Active' /\ ~(transition'.fromNode = fromContent' /\ transition'.toNode = toContent')
       => LastOp' \in RequestOps /\ Cardinality(Positions("start"))' = 2]_vars

\* C21 (as claimed): whenever a transition is active, its fromElement is the node's
\* fromContent and its toElement is the node's toContent, also after a request made
\* from inside an ended listener of the transition being interrupted.
C21_ParticipantsAgree ==
    Active => transition.fromNode = fromContent /\ transition.toNode = toContent

\* C22 (as claimed): with no transition active, a fromContent that is not null is an
\* attached and visible child of the node, and no other element is both attached and
\* visible.
C22_QuiescentContentShown ==
    ~Active =>
        /\ fromContent # Null => children[fromContent] > 0 /\ nodes[fromContent].visible
        /\ \A e \in Elements \ {fromContent} : ~(children[e] > 0 /\ nodes[e].visible)

\* with no transition active, fromContent is attached and no other element is both
\* attached and visible
QuiescentOthersHidden ==
    ~Active =>
        /\ fromContent # Null => children[fromContent] > 0
        /\ \A e \in Elements \ {fromContent} : ~(children[e] > 0 /\ nodes[e].visible)

\* the call after which fromContent is hidden has ended a transition from a cached
\* element to itself
HiddenOnlyByTransitionToSelf ==
    [][/\ ~Active' /\ fromContent' # Null
       /\ ~nodes'[fromContent'].visible
       /\ (Active \/ fromContent # fromContent' \/ nodes[fromContent].visible)
       => \E j \in Positions("ended")' :
              /\ events'[j].from = events'[j].el
              /\ events'[j].el = fromContent'
              /\ fromContent' \in cachedNodes]_vars

\* the engine refuses a call made in a state that does not allow it
UsageErrors == {"start: not idle", "step: not running", "stop: not running"}

\* the calls of the engine that the last call of the node made and the engine refused
Refused == {i \in Positions("throw") : events[i].el \in UsageErrors}

\* a call that found no transition active and made no call of an engine
Untouched(w, op) == w.events = <<[ev |-> "call", el |-> op]>> /\ ~w.thrown

\* C23: no operation of the node (a request with a well-formed configuration,
\* step( dt ), interrupt(), a bounds change, dispose()) calls step() or stop() of an
\* engine that is not Running or start() of one that is not Idle: the transition the
\* node holds is Running, a request starts a fresh one, and with no transition
\* active (so after one has ended) step( dt ) and interrupt() call no engine at all.
C23_NoUsageError ==
    /\ Refused = {}
    /\ Active => transition.state = "Running"
    /\ \A i \in Positions("start") : events[i].snap.active
    /\ ~Active /\ linked =>
          /\ \A dt \in 0..MaxDt : Untouched(step(Call("step"), dt), "step")
          /\ Untouched(interrupt(Call("interrupt")), "interrupt")

\* the last step has ended a transition, and neither step( dt ) nor interrupt() does
\* anything now
C23_Witness ==
    /\ LastOp = "step" /\ Happened("step") /\ Happened("ended") /\ Happened("cleanup")
    /\ ~Active /\ linked
    /\ Untouched(step(Call("step"), MaxDt), "step")
    /\ Untouched(interrupt(Call("interrupt")), "interrupt")

============================================================================
